---- MODULE Spec2Model ----
(***************************************************************************)
(* Model of queries-resources (src/queries-resources/src/lib.rs): the      *)
(* stem-map, word-cluster and gazetteer builders, the public accessors     *)
(* built on them, and the lazily initialised per-language stem maps        *)
(* (STEMS_EN, STEMS_FR, STEMS_DE) behind stem_en, stem_fr and stem_de.     *)
(*                                                                         *)
(* A string is a sequence of one-character strings.  A delimited source is *)
(* the sequence of its rows, a row the sequence of its fields (splitting   *)
(* bytes into fields is the csv crate's work).  A gazetteer source is the  *)
(* sequence of its characters, "\n" included.                              *)
(***************************************************************************)
EXTENDS Naturals, Sequences, FiniteSets

VARIABLES
    resources,  \* the embedded stem sources of each language (include_bytes!)
    once,       \* per language: the state of the lazy_static's Once
    slot,       \* per language: the lazy_static's value (STEMS_EN, ...)
    builds,     \* per language: how often the lazy_static initialiser ran
    parses,     \* per accessor identity: how often its parser ran
    calls,      \* per accessor identity: how often it was called
    th,         \* per thread: the call it is in, its locals and its outcome
    input,      \* the sources handed to the builders (builder specifications)
    ret         \* the last builder call and what it returned

vars == <<resources, once, slot, builds, parses, calls, th, input, ret>>

----------------------------------------------------------------------------
(* Strings *)

\* Result<T>: Ok(value) or Err(error)
Ok(v) == [tag |-> "Ok", val |-> v]
Err == [tag |-> "Err"]

IsWhitespace(c) == c \in {" ", "\n", "\r"}

\* char::to_lowercase on the letters used here
to_lowercase(c) ==
    CASE c = "A" -> "a"
      [] c = "B" -> "b"
      [] c = "D" -> "d"
      [] c = "N" -> "n"
      [] c = "P" -> "p"
      [] c = "Y" -> "y"
      [] OTHER -> c

RECURSIVE trim_start(_)
trim_start(s) ==
    IF s # <<>> /\ IsWhitespace(Head(s)) THEN trim_start(Tail(s)) ELSE s

RECURSIVE trim_end(_)
trim_end(s) ==
    IF s # <<>> /\ IsWhitespace(s[Len(s)])
    THEN trim_end(SubSeq(s, 1, Len(s) - 1))
    ELSE s

\* nlu_utils::string::normalize: surrounding whitespace removed, case folded
normalize(s) ==
    LET t == trim_end(trim_start(s))
    IN  [i \in 1..Len(t) |-> to_lowercase(t[i])]

\* str::split(sep): the pieces between separators, empty pieces included
RECURSIVE split_from(_, _, _)
split_from(s, sep, cur) ==
    IF s = <<>> THEN <<cur>>
    ELSE IF Head(s) = sep THEN <<cur>> \o split_from(Tail(s), sep, <<>>)
    ELSE split_from(Tail(s), sep, Append(cur, Head(s)))

split(s, sep) == split_from(s, sep, <<>>)

\* nlu_utils::token::tokenize_light: the words of a text, in order
RECURSIVE tokens_from(_, _)
tokens_from(s, cur) ==
    IF s = <<>> THEN (IF cur = <<>> THEN <<>> ELSE <<cur>>)
    ELSE IF IsWhitespace(Head(s))
         THEN (IF cur = <<>> THEN <<>> ELSE <<cur>>) \o tokens_from(Tail(s), <<>>)
         ELSE tokens_from(Tail(s), Append(cur, Head(s)))

tokenize_light(s) == tokens_from(s, <<>>)

\* Itertools::join(" ")
RECURSIVE join(_, _)
join(toks, sep) ==
    IF toks = <<>> THEN <<>>
    ELSE IF Len(toks) = 1 THEN toks[1]
    ELSE toks[1] \o <<sep>> \o join(Tail(toks), sep)

\* BufRead::lines: the pieces ended by "\n" (a "\r" before it dropped), and
\* the rest after the last "\n" when it is not empty
RECURSIVE lines_from(_, _)
lines_from(bytes, cur) ==
    IF bytes = <<>> THEN (IF cur = <<>> THEN <<>> ELSE <<cur>>)
    ELSE IF Head(bytes) = "\n"
         THEN <<IF cur # <<>> /\ cur[Len(cur)] = "\r"
                THEN SubSeq(cur, 1, Len(cur) - 1) ELSE cur>>
              \o lines_from(Tail(bytes), <<>>)
         ELSE lines_from(Tail(bytes), Append(cur, Head(bytes)))

lines(bytes) == lines_from(bytes, <<>>)

----------------------------------------------------------------------------
(* HashMap *)

EmptyMap == [k \in {} |-> <<>>]

insert(m, k, v) == [x \in (DOMAIN m) \cup {k} |-> IF x = k THEN v ELSE m[x]]

\* HashMap::extend: every entry of the other map inserted
RECURSIVE extend(_, _)
extend(m, other) ==
    IF DOMAIN other = {} THEN m
    ELSE LET k == CHOOSE x \in DOMAIN other : TRUE
         IN  extend(insert(m, k, other[k]),
                    [x \in (DOMAIN other) \ {k} |-> other[x]])

\* mutant: unwrap_or_default in place of unwrap_or(&input)
get_or_default(m, w) == IF w \in DOMAIN m THEN m[w] ELSE <<>>

\* HashMap::get(&input).unwrap_or(&input)
get_or_input(m, w) == IF w \in DOMAIN m THEN m[w] ELSE w

----------------------------------------------------------------------------
(* stems, word_clusters: the delimited-record builders *)

\* csv_reader.decode() into (String, String): a row of exactly two fields
decode(row) == IF Len(row) = 2 THEN Ok(row) ELSE Err

\* for key in keys.split(","): result.insert(normalize(key), value)
RECURSIVE insert_keys(_, _, _)
insert_keys(result, keys, value) ==
    IF keys = <<>> THEN result
    ELSE insert_keys(insert(result, normalize(Head(keys)), value), Tail(keys), value)

RECURSIVE lexemes_rows(_, _)
lexemes_rows(rows, result) ==
    IF rows = <<>> THEN Ok(result)
    ELSE LET row == decode(Head(rows))
         IN  IF row.tag = "Err" THEN Err
             ELSE lexemes_rows(Tail(rows),
                      insert_keys(result, split(row.val[2], ","), normalize(row.val[1])))

parse_lexemes(rows) == lexemes_rows(rows, EmptyMap)

RECURSIVE inflections_rows(_, _)
inflections_rows(rows, result) ==
    IF rows = <<>> THEN Ok(result)
    ELSE LET row == decode(Head(rows))
         IN  IF row.tag = "Err" THEN Err
             ELSE inflections_rows(Tail(rows),
                      insert(result, normalize(row.val[1]), normalize(row.val[2])))

\* mutant: a row that does not decode is skipped
RECURSIVE inflections_rows_skipping(_, _)
inflections_rows_skipping(rows, result) ==
    IF rows = <<>> THEN Ok(result)
    ELSE LET row == decode(Head(rows))
         IN  IF row.tag = "Err" THEN inflections_rows_skipping(Tail(rows), result)
             ELSE inflections_rows_skipping(Tail(rows),
                      insert(result, normalize(row.val[1]), normalize(row.val[2])))

parse_inflections_skipping(rows) == inflections_rows_skipping(rows, EmptyMap)

parse_inflections(rows) == inflections_rows(rows, EmptyMap)

RECURSIVE clusters_rows(_, _)
clusters_rows(rows, result) ==
    IF rows = <<>> THEN Ok(result)
    ELSE LET row == decode(Head(rows))
         IN  IF row.tag = "Err" THEN Err
             ELSE clusters_rows(Tail(rows), insert(result, row.val[1], row.val[2]))

\* mutant: keys normalized as the stem builders do
RECURSIVE clusters_rows_normalized(_, _)
clusters_rows_normalized(rows, result) ==
    IF rows = <<>> THEN Ok(result)
    ELSE LET row == decode(Head(rows))
         IN  IF row.tag = "Err" THEN Err
             ELSE clusters_rows_normalized(Tail(rows),
                      insert(result, normalize(row.val[1]), row.val[2]))

parse_clusters_normalized(rows) == clusters_rows_normalized(rows, EmptyMap)

parse_clusters(rows) == clusters_rows(rows, EmptyMap)

\* mutant: the lexemes parsed first and extended with the inflections
stems_en_inflections_last(infl, lex) ==
    LET result == parse_lexemes(lex)
    IN  IF result.tag = "Err" THEN Err
        ELSE LET more == parse_inflections(infl)
             IN  IF more.tag = "Err" THEN Err
                 ELSE Ok(extend(result.val, more.val))

\* parse_inflections(..)?, then result.extend(parse_lexemes(..)?)
stems_en(infl, lex) ==
    LET result == parse_inflections(infl)
    IN  IF result.tag = "Err" THEN Err
        ELSE LET more == parse_lexemes(lex)
             IN  IF more.tag = "Err" THEN Err
                 ELSE Ok(extend(result.val, more.val))

stems_fr(infl, lex) ==
    LET result == parse_inflections(infl)
    IN  IF result.tag = "Err" THEN Err
        ELSE LET more == parse_lexemes(lex)
             IN  IF more.tag = "Err" THEN Err
                 ELSE Ok(extend(result.val, more.val))

stems_es(infl, lex) ==
    LET result == parse_inflections(infl)
    IN  IF result.tag = "Err" THEN Err
        ELSE LET more == parse_lexemes(lex)
             IN  IF more.tag = "Err" THEN Err
                 ELSE Ok(extend(result.val, more.val))

stems_de(lex) ==
    LET result == parse_lexemes(lex)
    IN  IF result.tag = "Err" THEN Err ELSE Ok(result.val)

\* stems::<lang>() over that language's embedded sources
stems(lang, infl, lex) ==
    CASE lang = "en" -> stems_en(infl, lex)
      [] lang = "fr" -> stems_fr(infl, lex)
      [] lang = "es" -> stems_es(infl, lex)
      [] lang = "de" -> stems_de(lex)

----------------------------------------------------------------------------
(* gazetteer::parse_gazetteer *)

no_stem(w) == w

\* mutant: stem_fn applied to the joined line, not to each token
map_stem_joined(toks, stemmed, m) ==
    IF toks = <<>> THEN <<>>
    ELSE <<IF stemmed THEN get_or_input(m, join(toks, " ")) ELSE join(toks, " ")>>

\* tokens.into_iter().map(|t| stem_fn(t)): stem_fn is no_stem, or the lookup
\* in a stem map
RECURSIVE map_stem(_, _, _)
map_stem(toks, stemmed, m) ==
    IF toks = <<>> THEN <<>>
    ELSE <<IF stemmed THEN get_or_input(m, Head(toks)) ELSE no_stem(Head(toks))>>
         \o map_stem(Tail(toks), stemmed, m)

\* mutant: no test of normalized.is_empty()
gazetteer_line_unskipped(result, line, stemmed, m) ==
    result \cup {join(map_stem(tokenize_light(normalize(line)), stemmed, m), " ")}

gazetteer_line(result, line, stemmed, m) ==
    LET normalized == normalize(line)
    IN  IF normalized # <<>>
        THEN result \cup {join(map_stem(tokenize_light(normalized), stemmed, m), " ")}
        ELSE result

RECURSIVE gazetteer_lines(_, _, _, _)
gazetteer_lines(ls, result, stemmed, m) ==
    IF ls = <<>> THEN Ok(result)
    ELSE gazetteer_lines(Tail(ls), gazetteer_line(result, Head(ls), stemmed, m),
                         stemmed, m)

parse_gazetteer(bytes, stemmed, m) == gazetteer_lines(lines(bytes), {}, stemmed, m)

----------------------------------------------------------------------------
(* The builders applied to bounded sources *)

MaxRows == 2
MaxLexRows == 1
MaxBytes == 5

Unused == "unused"
NotCalled == [tag |-> "none"]

Fields == {<<"a">>, <<"A">>, <<"b", ",", "A">>}

\* the rows a source may hold: two fields, or one field, or three
Rows == {<<f, g>> : f \in Fields, g \in Fields} \cup {<<<<"a">>>>, <<<<"a">>, <<"a">>, <<"a">>>>}

SourcesUpTo(n) == UNION {[1..k -> Rows] : k \in 0..n}

\* "ran;run\n"
RanRun == <<<<<<"r", "a", "n">>, <<"r", "u", "n">>>>>>

\* "dog\t001\ncat\t002\n", and the same with "Dog" beside "dog"
DogCat == <<<<<<"d", "o", "g">>, <<"0", "0", "1">>>>, <<<<"c", "a", "t">>, <<"0", "0", "2">>>>>>

DogDog == <<<<<<"D", "o", "g">>, <<"0", "0", "1">>>>, <<<<"d", "o", "g">>, <<"0", "0", "2">>>>>>

TableInputs ==
    {[src |-> s, src2 |-> t] : s \in SourcesUpTo(MaxRows), t \in SourcesUpTo(MaxLexRows)}
    \cup {[src |-> s, src2 |-> <<>>] : s \in {RanRun, DogCat, DogDog}}

InitTables ==
    /\ input \in TableInputs
    /\ ret = [fn |-> "none"]
    /\ resources = Unused /\ once = Unused /\ slot = Unused
    /\ builds = Unused /\ parses = Unused /\ calls = Unused /\ th = Unused

Returned(fn, out) ==
    /\ ret' = [fn |-> fn, out |-> out]
    /\ UNCHANGED <<resources, once, slot, builds, parses, calls, th, input>>

CallParseInflections == Returned("parse_inflections", parse_inflections(input.src))

CallParseLexemes == Returned("parse_lexemes", parse_lexemes(input.src))

CallParseClusters == Returned("parse_clusters", parse_clusters(input.src))

CallStemsEn == Returned("stems_en", stems("en", input.src, input.src2))

CallStemsFr == Returned("stems_fr", stems("fr", input.src, input.src2))

CallStemsEs == Returned("stems_es", stems("es", input.src, input.src2))

CallStemsDe == Returned("stems_de", stems("de", input.src2, input.src))

NextTables ==
    \/ CallParseInflections
    \/ CallParseLexemes
    \/ CallParseClusters
    \/ CallStemsEn
    \/ CallStemsFr
    \/ CallStemsEs
    \/ CallStemsDe

SpecTables == InitTables /\ [][NextTables]_vars

GazChars == {"a", "B", " ", "\n"}

BytesUpTo(n) == UNION {[1..k -> GazChars] : k \in 0..n}

\* "New York\n\nParis\n"
NewYorkParis ==
    <<"N", "e", "w", " ", "Y", "o", "r", "k", "\n", "\n", "P", "a", "r", "i", "s", "\n">>

StemKeys == {<<"a">>, <<"b">>}

StemVals == {<<"b">>, <<"c">>}

StemMaps == UNION {[ks -> StemVals] : ks \in SUBSET StemKeys}

GazetteerInputs ==
    {[bytes |-> b, stems |-> m] : b \in BytesUpTo(MaxBytes) \cup {NewYorkParis}, m \in StemMaps}

InitGazetteer ==
    /\ input \in GazetteerInputs
    /\ ret = [plain |-> NotCalled, stem |-> NotCalled]
    /\ resources = Unused /\ once = Unused /\ slot = Unused
    /\ builds = Unused /\ parses = Unused /\ calls = Unused /\ th = Unused

\* <name>(): parse_gazetteer(bytes, stems::no_stem)
CallGazetteer ==
    /\ ret' = [ret EXCEPT !.plain = parse_gazetteer(input.bytes, FALSE, EmptyMap)]
    /\ UNCHANGED <<resources, once, slot, builds, parses, calls, th, input>>

\* <name>_stem(): parse_gazetteer(bytes, stem_<lang>), the stem map built
CallGazetteerStem ==
    /\ ret' = [ret EXCEPT !.stem = parse_gazetteer(input.bytes, TRUE, input.stems)]
    /\ UNCHANGED <<resources, once, slot, builds, parses, calls, th, input>>

NextGazetteer == CallGazetteer \/ CallGazetteerStem

SpecGazetteer == InitGazetteer /\ [][NextGazetteer]_vars

----------------------------------------------------------------------------
(* The accessors called from threads, and the lazy_static stem maps *)

MaxCalls == 3

Threads == {"t1", "t2"}

StemLangs == {"en", "fr", "es", "de"}

\* the languages of gazetteer::en, gazetteer::fr, gazetteer::de
GazetteerLangs == {"en", "fr", "de"}

\* of each language's catalogue, the gazetteer all three hold
GazetteerNames == {"countries"}

\* the accessor identities
Accessors ==
    {[kind |-> "stems", lang |-> l, name |-> "stems"] : l \in StemLangs}
    \cup {[kind |-> "word_clusters", lang |-> "en", name |-> "brown_clusters"]}
    \cup {[kind |-> k, lang |-> l, name |-> n] :
            k \in {"gazetteer", "gazetteer_stem"}, l \in GazetteerLangs, n \in GazetteerNames}

\* include_bytes!: candidate contents of the embedded stem sources
GoodInflections == <<<<<<"A">>, <<"b">>>>>>

GoodLexemes == <<<<<<"c">>, <<"a", ",", "D">>>>>>

BadInflections == <<<<<<"A">>, <<"b">>>>, <<<<"a">>>>>>

BadLexemes == <<<<<<"c">>, <<"a">>, <<"d">>>>>>

GoodSources == [infl |-> GoodInflections, lex |-> GoodLexemes]

EmbeddedStemSources ==
    {[l \in StemLangs |-> GoodSources],
     [l \in StemLangs |-> IF l = "en" THEN [infl |-> BadInflections, lex |-> GoodLexemes]
                          ELSE GoodSources],
     [l \in StemLangs |-> IF l = "en" THEN [infl |-> GoodInflections, lex |-> BadLexemes]
                          ELSE GoodSources],
     [l \in StemLangs |-> IF l = "fr" THEN [infl |-> GoodInflections, lex |-> BadLexemes]
                          ELSE GoodSources],
     [l \in StemLangs |-> IF l = "de" THEN [infl |-> <<>>, lex |-> BadLexemes]
                          ELSE GoodSources]}

EmbeddedClusters == DogDog

EmbeddedGazetteer(lang, name) ==
    CASE lang = "en" -> <<"A", " ", "b", "\n", "\n">>
      [] lang = "fr" -> <<"b", "\n">>
      [] lang = "de" -> <<"a", "\n">>

NoAccessor == [kind |-> "none", lang |-> "none", name |-> "none"]

Idle == [pc |-> "idle", acc |-> NoAccessor, lines |-> <<>>, toks |-> <<>>, stemmed |-> <<>>,
         result |-> {}, look |-> [tag |-> "none"], waited |-> FALSE, out |-> "none"]

\* Once: INCOMPLETE, RUNNING, COMPLETE or POISONED; the value is unset until
\* the initialiser has returned
Init ==
    /\ resources \in EmbeddedStemSources
    /\ once = [l \in GazetteerLangs |-> "INCOMPLETE"]
    /\ slot = [l \in GazetteerLangs |-> [tag |-> "unset"]]
    /\ builds = [l \in GazetteerLangs |-> 0]
    /\ parses = [a \in Accessors |-> 0]
    /\ calls = [a \in Accessors |-> 0]
    /\ th = [t \in Threads |-> Idle]
    /\ input = Unused
    /\ ret = Unused

RECURSIVE Sum(_, _)
Sum(f, S) ==
    IF S = {} THEN 0
    ELSE LET x == CHOOSE y \in S : TRUE IN f[x] + Sum(f, S \ {x})

\* calls made by the threads (those of the initialisers not counted)
ThreadCalls == Sum(calls, Accessors) - Sum(builds, GazetteerLangs)

StemsId(l) == [kind |-> "stems", lang |-> l, name |-> "stems"]

Count(f, a) == [f EXCEPT ![a] = @ + 1]

\* mutant: the accessor keeps what it parsed and parses on its first call only
CallStemsCached(t, l) ==
    /\ th[t].pc = "idle"
    /\ ThreadCalls < MaxCalls
    /\ calls' = Count(calls, StemsId(l))
    /\ parses' = IF parses[StemsId(l)] = 0 THEN Count(parses, StemsId(l)) ELSE parses
    /\ th' = [th EXCEPT ![t] = [Idle EXCEPT
                 !.acc = StemsId(l),
                 !.out = stems(l, resources[l].infl, resources[l].lex).tag]]
    /\ UNCHANGED <<resources, once, slot, builds, input, ret>>

\* stems::<lang>(): both sources parsed, the map or the error returned
CallStems(t, l) ==
    /\ th[t].pc = "idle"
    /\ ThreadCalls < MaxCalls
    /\ calls' = Count(calls, StemsId(l))
    /\ parses' = Count(parses, StemsId(l))
    /\ th' = [th EXCEPT ![t] = [Idle EXCEPT
                 !.acc = StemsId(l),
                 !.out = stems(l, resources[l].infl, resources[l].lex).tag]]
    /\ UNCHANGED <<resources, once, slot, builds, input, ret>>

\* word_clusters::en::brown_clusters()
CallBrownClusters(t) ==
    LET a == [kind |-> "word_clusters", lang |-> "en", name |-> "brown_clusters"]
    IN  /\ th[t].pc = "idle"
        /\ ThreadCalls < MaxCalls
        /\ calls' = Count(calls, a)
        /\ parses' = Count(parses, a)
        /\ th' = [th EXCEPT ![t] = [Idle EXCEPT
                     !.acc = a, !.out = parse_clusters(EmbeddedClusters).tag]]
        /\ UNCHANGED <<resources, once, slot, builds, input, ret>>

\* gazetteer::<lang>::<name>(): parse_gazetteer with stems::no_stem
CallGazetteerPlain(t, l, n) ==
    LET a == [kind |-> "gazetteer", lang |-> l, name |-> n]
    IN  /\ th[t].pc = "idle"
        /\ ThreadCalls < MaxCalls
        /\ calls' = Count(calls, a)
        /\ parses' = Count(parses, a)
        /\ th' = [th EXCEPT ![t] = [Idle EXCEPT
                     !.acc = a,
                     !.result = parse_gazetteer(EmbeddedGazetteer(l, n), FALSE, EmptyMap).val,
                     !.out = "Ok"]]
        /\ UNCHANGED <<resources, once, slot, builds, input, ret>>

\* gazetteer::<lang>::<name>_stem(): parse_gazetteer starts to read the lines
CallGazetteerStemmed(t, l, n) ==
    LET a == [kind |-> "gazetteer_stem", lang |-> l, name |-> n]
    IN  /\ th[t].pc = "idle"
        /\ ThreadCalls < MaxCalls
        /\ calls' = Count(calls, a)
        /\ parses' = Count(parses, a)
        /\ th' = [th EXCEPT ![t] = [Idle EXCEPT
                     !.pc = "line", !.acc = a, !.lines = lines(EmbeddedGazetteer(l, n))]]
        /\ UNCHANGED <<resources, once, slot, builds, input, ret>>

\* for line in reader.lines(): the line normalized, skipped when empty, else
\* tokenized; Ok(result) after the last line
ReadLine(t) ==
    /\ th[t].pc = "line"
    /\ IF th[t].lines = <<>>
       THEN th' = [th EXCEPT ![t].pc = "idle", ![t].out = "Ok"]
       ELSE LET normalized == normalize(Head(th[t].lines))
            IN  IF normalized # <<>>
                THEN th' = [th EXCEPT ![t].pc = "stem",
                                      ![t].toks = tokenize_light(normalized),
                                      ![t].stemmed = <<>>]
                ELSE th' = [th EXCEPT ![t].lines = Tail(@)]
    /\ UNCHANGED <<resources, once, slot, builds, parses, calls, input, ret>>

\* result.insert(tokens ... .join(" ")) once every token is stemmed
InsertEntry(t) ==
    /\ th[t].pc = "stem"
    /\ th[t].toks = <<>>
    /\ th' = [th EXCEPT ![t].pc = "line",
                        ![t].result = @ \cup {join(th[t].stemmed, " ")},
                        ![t].lines = Tail(@),
                        ![t].stemmed = <<>>,
                        ![t].look = [tag |-> "none"]]
    /\ UNCHANGED <<resources, once, slot, builds, parses, calls, input, ret>>

\* mutant: the initialiser also entered while another thread runs it
MayInitialiseUnlocked(state) == state \in {"INCOMPLETE", "RUNNING"}

\* Once::call_once: who finds the Once INCOMPLETE runs the initialiser
MayInitialise(state) == state = "INCOMPLETE"

\* who finds it RUNNING waits for the initialiser to end
MustWait(state) == state = "RUNNING"

\* stem_<lang>(token), the lazy_static not yet initialised: the Once taken
EnterInitialiser(t) ==
    LET l == th[t].acc.lang
    IN  /\ th[t].pc = "stem"
        /\ th[t].toks # <<>>
        /\ MayInitialise(once[l])
        /\ once' = [once EXCEPT ![l] = "RUNNING"]
        /\ builds' = Count(builds, l)
        /\ th' = [th EXCEPT ![t].pc = "build"]
        /\ UNCHANGED <<resources, slot, parses, calls, input, ret>>

\* mutant: one static shared by the three languages' stem functions
RunInitialiserShared(t) ==
    LET l == th[t].acc.lang
        built == stems(l, resources[l].infl, resources[l].lex)
    IN  /\ th[t].pc = "build"
        /\ calls' = Count(calls, StemsId(l))
        /\ parses' = Count(parses, StemsId(l))
        /\ IF built.tag = "Ok"
           THEN /\ slot' = [m \in GazetteerLangs |-> [tag |-> "set", map |-> built.val]]
                /\ once' = [m \in GazetteerLangs |-> "COMPLETE"]
                /\ th' = [th EXCEPT ![t].pc = "stem"]
           ELSE /\ once' = [once EXCEPT ![l] = "POISONED"]
                /\ th' = [th EXCEPT ![t].pc = "panicked", ![t].out = "panic"]
                /\ UNCHANGED slot
        /\ UNCHANGED <<resources, builds, input, ret>>

\* stems::<lang>().unwrap() in the initialiser: the map stored and the Once
\* COMPLETE, or the panic and the Once POISONED
RunInitialiser(t) ==
    LET l == th[t].acc.lang
        built == stems(l, resources[l].infl, resources[l].lex)
    IN  /\ th[t].pc = "build"
        /\ calls' = Count(calls, StemsId(l))
        /\ parses' = Count(parses, StemsId(l))
        /\ IF built.tag = "Ok"
           THEN /\ slot' = [slot EXCEPT ![l] = [tag |-> "set", map |-> built.val]]
                /\ once' = [once EXCEPT ![l] = "COMPLETE"]
                /\ th' = [th EXCEPT ![t].pc = "stem"]
           ELSE /\ once' = [once EXCEPT ![l] = "POISONED"]
                /\ th' = [th EXCEPT ![t].pc = "panicked", ![t].out = "panic"]
                /\ UNCHANGED slot
        /\ UNCHANGED <<resources, builds, input, ret>>

\* stem_<lang>(token), another thread in the initialiser: the caller blocks
Wait(t) ==
    LET l == th[t].acc.lang
    IN  /\ th[t].pc = "stem"
        /\ th[t].toks # <<>>
        /\ MustWait(once[l])
        /\ th' = [th EXCEPT ![t].pc = "wait", ![t].waited = TRUE]
        /\ UNCHANGED <<resources, once, slot, builds, parses, calls, input, ret>>

\* the initialiser has ended: the waiting caller goes on
Wake(t) ==
    LET l == th[t].acc.lang
    IN  /\ th[t].pc = "wait"
        /\ once[l] \in {"COMPLETE", "POISONED"}
        /\ th' = [th EXCEPT ![t].pc = "stem"]
        /\ UNCHANGED <<resources, once, slot, builds, parses, calls, input, ret>>

\* call_once on a POISONED Once panics
PoisonedPanic(t) ==
    LET l == th[t].acc.lang
    IN  /\ th[t].pc = "stem"
        /\ th[t].toks # <<>>
        /\ once[l] = "POISONED"
        /\ th' = [th EXCEPT ![t].pc = "panicked", ![t].out = "panic"]
        /\ UNCHANGED <<resources, once, slot, builds, parses, calls, input, ret>>

\* STEMS_<LANG>.get(&input).unwrap_or(&input).to_string() on the value read
Lookup(t) ==
    LET l == th[t].acc.lang
        w == Head(th[t].toks)
    IN  /\ th[t].pc = "stem"
        /\ th[t].toks # <<>>
        /\ ~MayInitialise(once[l]) /\ ~MustWait(once[l]) /\ once[l] # "POISONED"
        /\ th' = [th EXCEPT
                     ![t].toks = Tail(@),
                     ![t].stemmed = Append(@, IF slot[l].tag = "set"
                                              THEN get_or_input(slot[l].map, w) ELSE w),
                     ![t].look = [tag |-> "read", lang |-> l, word |-> w, value |-> slot[l],
                                  stem |-> IF slot[l].tag = "set"
                                           THEN get_or_input(slot[l].map, w) ELSE w]]
        /\ UNCHANGED <<resources, once, slot, builds, parses, calls, input, ret>>

Next ==
    \E t \in Threads :
        \/ \E l \in StemLangs : CallStems(t, l)
        \/ CallBrownClusters(t)
        \/ \E l \in GazetteerLangs, n \in GazetteerNames :
               CallGazetteerPlain(t, l, n) \/ CallGazetteerStemmed(t, l, n)
        \/ ReadLine(t)
        \/ InsertEntry(t)
        \/ EnterInitialiser(t)
        \/ RunInitialiser(t)
        \/ Wait(t)
        \/ Wake(t)
        \/ PoisonedPanic(t)
        \/ Lookup(t)

Spec == Init /\ [][Next]_vars

----------------------------------------------------------------------------
(* Properties of the accessors and the lazy_static stem maps (Spec) *)

GazetteerStemId(l, n) == [kind |-> "gazetteer_stem", lang |-> l, name |-> n]

BuiltValue(l) ==
    [tag |-> "set", map |-> stems(l, resources[l].infl, resources[l].lex).val]

\* C2: under any interleaving of first calls of a language's stem function
\* the initialiser runs at most once and in one thread at a time, a caller
\* that finds it running waits, and whatever a caller reads is the completed
\* stem map of that language, read when the Once is COMPLETE.
C2_ConcurrentFirstCallsBuildOnce ==
    /\ \A l \in GazetteerLangs :
          /\ builds[l] <= 1
          /\ Cardinality({t \in Threads : th[t].pc = "build" /\ th[t].acc.lang = l}) <= 1
          /\ (once[l] = "RUNNING") =
                 (\E t \in Threads : th[t].pc = "build" /\ th[t].acc.lang = l)
    /\ \A t \in Threads :
          /\ th[t].look.tag = "read" =>
                /\ once[th[t].look.lang] = "COMPLETE"
                /\ th[t].look.value = BuiltValue(th[t].look.lang)
                /\ th[t].look.value = slot[th[t].look.lang]
          /\ th[t].pc = "wait" => once[th[t].acc.lang] # "INCOMPLETE"

\* two threads in their first call of one language's stem function, one of
\* which waited for the other's initialiser: both have read the same map
C2_Witness ==
    \E t1 \in Threads, t2 \in Threads :
        /\ t1 # t2
        /\ th[t1].look.tag = "read" /\ th[t2].look.tag = "read"
        /\ th[t1].look.lang = th[t2].look.lang
        /\ th[t2].waited /\ ~th[t1].waited
        /\ th[t1].look.value = th[t2].look.value
        /\ builds[th[t1].look.lang] = 1

\* C3: every failure met while an accessor builds its result reaches the
\* caller as an Err: a call that a failure has ended has returned Err.
C3_FailuresReturnErr ==
    \A t \in Threads :
        (th[t].acc # NoAccessor /\ th[t].pc \in {"idle", "panicked"} /\ th[t].out # "Ok")
            => th[t].out = "Err"

\* C5: once the stem map is built, the stem function returns the mapped stem
\* for a word that is a key of the map and the word itself for any other
\* word, and the lookup never fails: a call panics only on a failed build.
C5_StemLookupFallsBackToWord ==
    \A t \in Threads :
        /\ th[t].look.tag = "read" =>
              LET m == th[t].look.value.map
                  w == th[t].look.word
              IN  /\ w \in DOMAIN m => th[t].look.stem = m[w]
                  /\ w \notin DOMAIN m => th[t].look.stem = w
        /\ th[t].pc = "panicked" => once[th[t].acc.lang] = "POISONED"

\* one thread has looked up a key of the map, the other a word that is none
C5_Witness ==
    \E t1 \in Threads, t2 \in Threads :
        /\ th[t1].look.tag = "read" /\ th[t2].look.tag = "read"
        /\ th[t1].look.word \in DOMAIN th[t1].look.value.map
        /\ th[t1].look.stem # th[t1].look.word
        /\ th[t2].look.word \notin DOMAIN th[t2].look.value.map
        /\ th[t2].look.stem = th[t2].look.word

\* C10: each language's stem-map slot starts unset and stays unset until that
\* language's stem function is first called; it changes once; once set (or
\* failed) it stays as it is under every later call; and a step that sets one
\* language's slot leaves the other languages' slots as they were.
C10_SlotSetOnceThenFixed ==
    /\ \A l \in GazetteerLangs : slot[l].tag = "unset" /\ once[l] = "INCOMPLETE"
    /\ [][\A l \in GazetteerLangs :
            /\ builds[l] = 0 => slot[l].tag = "unset" /\ once[l] = "INCOMPLETE"
            /\ slot[l].tag = "set" => slot'[l] = slot[l]
            /\ once[l] \in {"COMPLETE", "POISONED"} => once'[l] = once[l] /\ slot'[l] = slot[l]
            /\ slot'[l] # slot[l] =>
                  /\ slot[l].tag = "unset" /\ slot'[l] = BuiltValue(l)
                  /\ \A m \in GazetteerLangs \ {l} : slot'[m] = slot[m] /\ once'[m] = once[m]
         ]_vars

\* two languages' slots are set, one still unset, and every call has returned
C10_Witness ==
    /\ \E l \in GazetteerLangs, m \in GazetteerLangs, k \in GazetteerLangs :
          /\ slot[l].tag = "set" /\ slot[m].tag = "set" /\ l # m
          /\ slot[l] = BuiltValue(l)
          /\ slot[k].tag = "unset"
    /\ ThreadCalls = MaxCalls
    /\ \A t \in Threads : th[t].pc = "idle"

----------------------------------------------------------------------------
(* Properties of the delimited-record builders (SpecTables) *)

HasBadRow(rows) == \E i \in 1..Len(rows) : Len(rows[i]) # 2

\* C4: for en, fr and es the map stems::<lang>() returns has the keys of the
\* inflection map and of the lexeme map and no other, with the lexeme map's
\* value for every key the lexeme table gives and the inflection map's value
\* for the rest.
C4_LexemesOverrideInflections ==
    (ret.fn \in {"stems_en", "stems_fr", "stems_es"} /\ ret.out.tag = "Ok") =>
        LET infl == parse_inflections(input.src).val
            lex == parse_lexemes(input.src2).val
        IN  /\ DOMAIN ret.out.val = (DOMAIN infl) \cup (DOMAIN lex)
            /\ \A k \in DOMAIN ret.out.val :
                  ret.out.val[k] = IF k \in DOMAIN lex THEN lex[k] ELSE infl[k]

\* stems::en() has returned a map for two tables that give one key different
\* stems, and a key only the inflection table gives
C4_Witness ==
    /\ ret.fn = "stems_en" /\ ret.out.tag = "Ok"
    /\ LET infl == parse_inflections(input.src).val
           lex == parse_lexemes(input.src2).val
       IN  /\ \E k \in (DOMAIN infl) \cap (DOMAIN lex) : infl[k] # lex[k]
           /\ (DOMAIN infl) \ (DOMAIN lex) # {}

LastRowOf(rows, k) ==
    CHOOSE i \in 1..Len(rows) : rows[i][1] = k /\ \A j \in (i + 1)..Len(rows) : rows[j][1] # k

\* C8: for a source whose rows all have two columns, parse_clusters returns a
\* map whose keys are exactly the left columns as written and whose value for
\* a key is the right column, as written, of the last row with that key; the
\* dog/cat source gives {dog: 001, cat: 002}, and Dog and dog are two keys.
C8_ClustersVerbatimLastWins ==
    (ret.fn = "parse_clusters" /\ ~HasBadRow(input.src)) =>
        /\ ret.out.tag = "Ok"
        /\ DOMAIN ret.out.val = {input.src[i][1] : i \in 1..Len(input.src)}
        /\ \A k \in DOMAIN ret.out.val :
              ret.out.val[k] = input.src[LastRowOf(input.src, k)][2]
        /\ input.src = DogCat =>
              ret.out.val = [k \in {<<"d", "o", "g">>, <<"c", "a", "t">>} |->
                                IF k = <<"d", "o", "g">> THEN <<"0", "0", "1">>
                                ELSE <<"0", "0", "2">>]
        /\ input.src = DogDog => Cardinality(DOMAIN ret.out.val) = 2

\* parse_clusters has returned the map of a source that has one key in two
\* rows with different values, the key being upper case
C8_Witness ==
    /\ ret.fn = "parse_clusters" /\ ret.out.tag = "Ok"
    /\ Len(input.src) = 2
    /\ input.src[1][1] = <<"A">> /\ input.src[2][1] = <<"A">>
    /\ input.src[1][2] # input.src[2][2]
    /\ ret.out.val[<<"A">>] = input.src[2][2]

\* C9: a builder whose source has a row of one column or of more than two
\* returns Err, whatever rows came before; a stems accessor returns Err when
\* either of its sources has such a row and Ok when none has.
C9_BadRowIsErr ==
    /\ (ret.fn \in {"parse_inflections", "parse_lexemes", "parse_clusters", "stems_de"}
          /\ HasBadRow(input.src)) => ret.out = Err
    /\ ret.fn \in {"stems_en", "stems_fr", "stems_es"} =>
          /\ (HasBadRow(input.src) \/ HasBadRow(input.src2)) => ret.out = Err
          /\ (~HasBadRow(input.src) /\ ~HasBadRow(input.src2)) => ret.out.tag = "Ok"
    /\ ret.fn = "stems_de" /\ ~HasBadRow(input.src) => ret.out.tag = "Ok"

\* parse_inflections has returned Err for a source whose first row is good and
\* whose second row has one column
C9_Witness ==
    /\ ret.fn = "parse_inflections"
    /\ Len(input.src) = 2 /\ Len(input.src[1]) = 2 /\ Len(input.src[2]) = 1
    /\ ret.out = Err

----------------------------------------------------------------------------
(* Properties of parse_gazetteer (SpecGazetteer) *)

\* the entry of a line: its tokens, each through f, joined by one space
EntryOf(line, stemmed, m) ==
    LET toks == tokenize_light(normalize(line))
    IN  join([i \in 1..Len(toks) |->
                 IF stemmed THEN get_or_input(m, toks[i]) ELSE toks[i]], " ")

EntriesOf(bytes, stemmed, m) ==
    LET ls == lines(bytes)
    IN  {EntryOf(ls[i], stemmed, m) : i \in {j \in 1..Len(ls) : normalize(ls[j]) # <<>>}}

NewYork == <<"n", "e", "w", " ", "y", "o", "r", "k">>

Paris == <<"p", "a", "r", "i", "s">>

\* C6: parse_gazetteer returns exactly the set of the entries of the lines
\* whose normalized form is not empty, for the identity and for a stem map's
\* lookup: an empty line adds nothing, equal entries are one; "New York",
\* blank, "Paris" with the identity gives {"new york", "paris"}.
C6_GazetteerIsSetOfEntries ==
    /\ ret.plain.tag # "none" =>
          /\ ret.plain = Ok(EntriesOf(input.bytes, FALSE, EmptyMap))
          /\ input.bytes = NewYorkParis => ret.plain.val = {NewYork, Paris}
    /\ ret.stem.tag # "none" => ret.stem = Ok(EntriesOf(input.bytes, TRUE, input.stems))

\* the unstemmed set of a source with an empty line between two lines that
\* give different entries has those two entries
C6_Witness ==
    LET ls == lines(input.bytes)
    IN  /\ Len(ls) = 3
        /\ normalize(ls[1]) # <<>> /\ normalize(ls[2]) = <<>> /\ normalize(ls[3]) # <<>>
        /\ ret.plain.tag = "Ok"
        /\ Cardinality(ret.plain.val) = 2

\* an entry split into its tokens, each replaced by its stem, joined again
StemmedEntry(e, m) ==
    LET toks == split(e, " ")
    IN  join([i \in 1..Len(toks) |-> get_or_input(m, toks[i])], " ")

\* C7: the stemmed set holds, for every entry of the unstemmed set, the entry
\* made of the stems of its tokens joined by one space, and holds nothing else.
C7_StemmedSetIsStemOfPlainSet ==
    (ret.plain.tag = "Ok" /\ ret.stem.tag = "Ok") =>
        ret.stem.val = {StemmedEntry(e, input.stems) : e \in ret.plain.val}

\* both sets are returned for a source with an entry of two tokens of which
\* the stem map changes one
C7_Witness ==
    /\ ret.plain.tag = "Ok" /\ ret.stem.tag = "Ok"
    /\ \E e \in ret.plain.val :
          /\ Len(split(e, " ")) = 2
          /\ StemmedEntry(e, input.stems) # e
          /\ \E i \in 1..2 : split(e, " ")[i] \notin DOMAIN input.stems

====
